---- MODULE Spec2Model ----
(***************************************************************************)
(* Model of the decision engine of the cloud resource optimizer:           *)
(* backend/models/allocator.py (ResourceAllocator).                        *)
(*                                                                         *)
(* Units.  Python floats are modelled by exact integers:                   *)
(*   - percentages (cpu_usage, memory_usage) are integer percents;         *)
(*   - an hourly price or cost is in 1/10000 dollar (round(x, 4));         *)
(*   - a daily or monthly cost, and a budget, is in cents (round(x, 2)).   *)
(* A performance score of the budget search is an integer: for an integer  *)
(* cpu percentage c and a capacity k, 100 - |k - c/10| * 10 = 100 -        *)
(* |10k - c|.                                                              *)
(***************************************************************************)
EXTENDS Integers, Sequences, FiniteSets, TLC

(***************************************************************************)
(* Bounds of the model.                                                    *)
(***************************************************************************)
MaxInstances == 3

\* predicted percentages around every threshold of the decision rule
CpuValues == {0, 29, 30, 50, 80, 81, 90, 91, 95, 100}
MemValues == {0, 34, 35, 85, 86, 90, 92}

\* monthly budgets in cents: below the cheapest grid pair, equal to the cost
\* of 1 x t2.micro (8.35) and of 2 x t2.small (33.12), and larger ones
Budgets == {0, 500, 835, 3312, 10000, 100000}

(***************************************************************************)
(* Python values.                                                          *)
(***************************************************************************)
\* Python's None
None == [none |-> TRUE]

\* dict.get(key, default)
DictGet(d, key, default) == IF key \in DOMAIN d THEN d[key] ELSE default

Abs(x) == IF x < 0 THEN -x ELSE x

Max(a, b) == IF a >= b THEN a ELSE b

\* round(x, ndigits) of a float whose exact decimal value is num / unit of
\* the target precision: round half to even
PyRound(num, unit) ==
    LET q == num \div unit
        r == num % unit
    IN  IF 2 * r < unit THEN q
        ELSE IF 2 * r > unit THEN q + 1
        ELSE IF q % 2 = 0 THEN q ELSE q + 1

(***************************************************************************)
(* config.py: resource allocation thresholds (defaults).                   *)
(***************************************************************************)
CPU_THRESHOLD_HIGH == 80
CPU_THRESHOLD_LOW == 30
MEMORY_THRESHOLD_HIGH == 85
MEMORY_THRESHOLD_LOW == 35

(***************************************************************************)
(* Tier tables of allocator.py.                                            *)
(***************************************************************************)
\* _get_larger_instance_type: type_hierarchy
LargerHierarchy ==
    ("t2.micro" :> "t2.small") @@ ("t2.small" :> "t2.medium") @@
    ("t2.medium" :> "t2.large") @@ ("t2.large" :> "t2.xlarge") @@
    ("t2.xlarge" :> "t2.2xlarge") @@
    ("t3.micro" :> "t3.small") @@ ("t3.small" :> "t3.medium") @@
    ("t3.medium" :> "t3.large") @@ ("t3.large" :> "t3.xlarge") @@
    ("t3.xlarge" :> "t3.2xlarge")

\* _get_smaller_instance_type: type_hierarchy
SmallerHierarchy ==
    ("t2.small" :> "t2.micro") @@ ("t2.medium" :> "t2.small") @@
    ("t2.large" :> "t2.medium") @@ ("t2.xlarge" :> "t2.large") @@
    ("t2.2xlarge" :> "t2.xlarge") @@
    ("t3.small" :> "t3.micro") @@ ("t3.medium" :> "t3.small") @@
    ("t3.large" :> "t3.medium") @@ ("t3.xlarge" :> "t3.large") @@
    ("t3.2xlarge" :> "t3.xlarge")

\* _estimate_cost: pricing, USD per hour in 1/10000 dollar
pricing ==
    ("t2.micro" :> 116) @@ ("t2.small" :> 230) @@ ("t2.medium" :> 464) @@
    ("t2.large" :> 928) @@ ("t2.xlarge" :> 1856) @@ ("t2.2xlarge" :> 3712) @@
    ("t3.micro" :> 104) @@ ("t3.small" :> 208) @@ ("t3.medium" :> 416) @@
    ("t3.large" :> 832) @@ ("t3.xlarge" :> 1664) @@ ("t3.2xlarge" :> 3328)

\* _calculate_performance_score: capacity
capacity ==
    ("t2.micro" :> 1) @@ ("t2.small" :> 2) @@ ("t2.medium" :> 4) @@
    ("t2.large" :> 8) @@ ("t2.xlarge" :> 16)

\* the tiers of the price table, and one identifier that no table knows
KnownTypes == DOMAIN pricing
UnknownType == "m5.large"
InstanceTypes == KnownTypes \cup {UnknownType}

\* mutant: an identifier without a larger tier falls back to the default tier
get_larger_instance_type_Default(current_type) ==
    DictGet(LargerHierarchy, current_type, "t2.micro")

get_larger_instance_type(current_type) ==
    DictGet(LargerHierarchy, current_type, current_type)

\* mutant: the lookup uses the table of the larger types
get_smaller_instance_type_Larger(current_type) ==
    DictGet(LargerHierarchy, current_type, current_type)

get_smaller_instance_type(current_type) ==
    DictGet(SmallerHierarchy, current_type, current_type)

(***************************************************************************)
(* _estimate_cost(instance_count, instance_type)                           *)
(***************************************************************************)
\* mutant: the default is the smallest price of the table (t3.micro)
DefaultPrice_Cheapest == pricing["t3.micro"]

\* the default of pricing.get(instance_type, 0.0116)
DefaultPrice == 116

\* mutant: the monthly cost is computed from the rounded daily cost
estimate_cost_FromRounded(instance_count, instance_type) ==
    LET hourly_cost == DictGet(pricing, instance_type, DefaultPrice) * instance_count
        daily_cost == hourly_cost * 24
    IN  [hourly |-> hourly_cost,
         daily |-> PyRound(daily_cost, 100),
         monthly |-> PyRound(daily_cost, 100) * 30]

estimate_cost(instance_count, instance_type) ==
    LET hourly_cost == DictGet(pricing, instance_type, DefaultPrice) * instance_count
        daily_cost == hourly_cost * 24
        monthly_cost == daily_cost * 30
    IN  [hourly |-> hourly_cost,
         daily |-> PyRound(daily_cost, 100),
         monthly |-> PyRound(monthly_cost, 100)]

(***************************************************************************)
(* calculate_required_resources(predictions, current_allocation)           *)
(* The timestamp and the unused predicted_network are left out.  A reason  *)
(* string is the record of its fixed text, the values its f-string         *)
(* formats, and the suffix appended to it.                                 *)
(***************************************************************************)
\* mutant: "and" for "or" in the scale-up condition
ScaleUpCondition_And(predicted_cpu, predicted_memory) ==
    predicted_cpu > CPU_THRESHOLD_HIGH /\ predicted_memory > MEMORY_THRESHOLD_HIGH

\* line 52: the scale-up condition
ScaleUpCondition(predicted_cpu, predicted_memory) ==
    predicted_cpu > CPU_THRESHOLD_HIGH \/ predicted_memory > MEMORY_THRESHOLD_HIGH

\* mutant: "and" for "or" in the vertical scaling condition
VerticalScalingCondition_And(predicted_cpu, predicted_memory) ==
    predicted_cpu > 90 /\ predicted_memory > 90

\* line 58: the vertical scaling condition
VerticalScalingCondition(predicted_cpu, predicted_memory) ==
    predicted_cpu > 90 \/ predicted_memory > 90

\* mutant: the memory is compared with the cpu threshold
ScaleDownCondition_CpuThreshold(predicted_cpu, predicted_memory) ==
    predicted_cpu < CPU_THRESHOLD_LOW /\ predicted_memory < CPU_THRESHOLD_LOW

\* mutant: "<=" for "<" in the scale-down condition
ScaleDownCondition_Inclusive(predicted_cpu, predicted_memory) ==
    predicted_cpu <= CPU_THRESHOLD_LOW /\ predicted_memory <= MEMORY_THRESHOLD_LOW

\* line 65: the scale-down condition
ScaleDownCondition(predicted_cpu, predicted_memory) ==
    predicted_cpu < CPU_THRESHOLD_LOW /\ predicted_memory < MEMORY_THRESHOLD_LOW

Reason(text, values, suffix) == [text |-> text, values |-> values, suffix |-> suffix]

calculate_required_resources(preds, current) ==
    LET predicted_cpu == DictGet(preds, "cpu_usage", 0)
        predicted_memory == DictGet(preds, "memory_usage", 0)
        current_instances == DictGet(current, "instance_count", 1)
        current_instance_type == DictGet(current, "instance_type", "t2.micro")
        up == ScaleUpCondition(predicted_cpu, predicted_memory)
        vertical == up /\ VerticalScalingCondition(predicted_cpu, predicted_memory)
        down == ~up /\ ScaleDownCondition(predicted_cpu, predicted_memory)
        smaller_type == get_smaller_instance_type(current_instance_type)
        action ==
            IF up THEN "scale_up"
            ELSE IF down /\ current_instances > 1 THEN "scale_down"
            ELSE IF down /\ smaller_type # current_instance_type THEN "scale_down"
            ELSE "maintain"
        recommended_instances ==
            IF up THEN current_instances + 1
            ELSE IF down /\ current_instances > 1 THEN current_instances - 1
            ELSE current_instances
        recommended_instance_type ==
            IF vertical THEN get_larger_instance_type(current_instance_type)
            ELSE IF down /\ ~(current_instances > 1) THEN smaller_type
            ELSE current_instance_type
        reason ==
            IF up THEN
                Reason("High resource usage predicted: CPU={}%, Memory={}%",
                       <<predicted_cpu, predicted_memory>>,
                       IF vertical THEN " - Vertical scaling recommended" ELSE "")
            ELSE IF down /\ current_instances > 1 THEN
                Reason("Low resource usage predicted: CPU={}%, Memory={}%",
                       <<predicted_cpu, predicted_memory>>, "")
            ELSE IF down /\ smaller_type # current_instance_type THEN
                Reason("Vertical scaling down recommended", <<>>, "")
            ELSE Reason("Resources within normal range", <<>>, "")
    IN  [action |-> action,
         current_instances |-> current_instances,
         recommended_instances |-> recommended_instances,
         current_instance_type |-> current_instance_type,
         recommended_instance_type |-> recommended_instance_type,
         reason |-> reason,
         predicted_cpu |-> predicted_cpu,
         predicted_memory |-> predicted_memory,
         estimated_cost |-> estimate_cost(recommended_instances,
                                          recommended_instance_type)]

(***************************************************************************)
(* _calculate_performance_score(instance_count, instance_type, predictions)*)
(***************************************************************************)
calculate_performance_score(instance_count, instance_type, preds) ==
    LET total_capacity == DictGet(capacity, instance_type, 1) * instance_count
        \* predicted_load = cpu_usage / 10, kept as tenths
        predicted_load10 == DictGet(preds, "cpu_usage", 50)
        score ==
            IF total_capacity * 10 >= predicted_load10
            THEN 100 - Abs(total_capacity * 10 - predicted_load10)
            ELSE 50 - (predicted_load10 - total_capacity * 10) * 2
    IN  Max(0, score)

(***************************************************************************)
(* _find_budget_optimal_config(predictions, current_allocation, budget)    *)
(***************************************************************************)
\* line 244: the candidate tiers, in iteration order
instance_types == <<"t2.micro", "t2.small", "t2.medium", "t2.large">>

\* line 250: range(1, 6)
MaxSearchCount == 5

\* line 247: best_score = -1
InitialBestScore == -1

\* mutant: the budget test reads the daily cost
WithinBudget_Daily(cost, budget) == cost.daily <= budget

\* mutant: a candidate of equal score replaces the best one
IsBetter_Inclusive(score, best_score) == score >= best_score

\* mutant: a candidate of score 0 never replaces the best one
IsBetter_Positive(score, best_score) == score > best_score /\ score > 0

\* line 261: the candidate beats the best score seen so far
IsBetter(score, best_score) == score > best_score

\* line 253: the budget test of one candidate
WithinBudget(cost, budget) == cost.monthly <= budget

\* the loop body for the pair number k (0-based) of the grid, tiers outer
\* and counts inner; best is <<best_config, best_score>>
RECURSIVE SearchLoop(_, _, _, _)
SearchLoop(k, preds, budget, best) ==
    IF k >= Len(instance_types) * MaxSearchCount THEN best
    ELSE
        LET instance_type == instance_types[(k \div MaxSearchCount) + 1]
            instance_count == (k % MaxSearchCount) + 1
            cost == estimate_cost(instance_count, instance_type)
            score == calculate_performance_score(instance_count, instance_type, preds)
            next ==
                IF WithinBudget(cost, budget) /\ IsBetter(score, best[2])
                THEN <<[instance_count |-> instance_count,
                        instance_type |-> instance_type,
                        estimated_cost |-> cost,
                        performance_score |-> score], score>>
                ELSE best
        IN  SearchLoop(k + 1, preds, budget, next)

find_budget_optimal_config(preds, current, budget) ==
    LET best == SearchLoop(0, preds, budget, <<None, InitialBestScore>>)
        best_config == best[1]
        best_score == best[2]
    IN  IF best_config # None
        THEN [action |-> "optimize",
              recommended_instances |-> best_config.instance_count,
              recommended_instance_type |-> best_config.instance_type,
              estimated_cost |-> best_config.estimated_cost,
              reason |-> Reason("Budget-optimized configuration (score: {})",
                                <<best_score>>, ""),
              predicted_cpu |-> DictGet(preds, "cpu_usage", 0),
              predicted_memory |-> DictGet(preds, "memory_usage", 0)]
        ELSE None

(***************************************************************************)
(* optimize_for_cost(predictions, current_allocation, budget_constraint)   *)
(***************************************************************************)
\* mutant: ">=" for ">" in the budget test
ExceedsBudget_Inclusive(estimated_monthly, budget) == estimated_monthly >= budget

\* line 226: the recommendation exceeds the budget
ExceedsBudget(estimated_monthly, budget) == estimated_monthly > budget

\* whether optimize_for_cost reaches the call of _find_budget_optimal_config
SearchRuns(preds, current, budget) ==
    LET base_recommendation == calculate_required_resources(preds, current)
    IN  /\ base_recommendation # None
        /\ ExceedsBudget(base_recommendation.estimated_cost.monthly, budget)

optimize_for_cost(preds, current, budget) ==
    LET base_recommendation == calculate_required_resources(preds, current)
    IN  IF base_recommendation = None THEN None
        ELSE IF ExceedsBudget(base_recommendation.estimated_cost.monthly, budget)
        THEN find_budget_optimal_config(preds, current, budget)
        ELSE base_recommendation

(***************************************************************************)
(* services/optimizer.py (CostOptimizer).                                  *)
(*                                                                         *)
(* Units.  A usage is an integer percent.  A sub-score of the optimization *)
(* score is in 1/10000 point, the returned score in 1/100 point            *)
(* (round(x, 2)).  A cost of a cost record is in cents, a date is a day    *)
(* number.  The amounts of calculate_roi are whole dollars; its returned   *)
(* percentages are in 1/100 percent and its payback period in 1/10 month.  *)
(***************************************************************************)
Min(a, b) == IF a <= b THEN a ELSE b

\* config.py: COST_WEIGHT and PERFORMANCE_WEIGHT, in tenths
COST_WEIGHT == 5
PERFORMANCE_WEIGHT == 5

\* _calculate_cost_score: base_costs, USD per hour in 1/10000 dollar
base_costs ==
    ("t2.micro" :> 116) @@ ("t2.small" :> 230) @@ ("t2.medium" :> 464) @@
    ("t2.large" :> 928) @@ ("t2.xlarge" :> 1856)

\* mutant: the cost score is not floored at 0
calculate_cost_score_Unclamped(allocation) ==
    LET instance_count == DictGet(allocation, "instance_count", 1)
        instance_type == DictGet(allocation, "instance_type", "t2.micro")
        hourly_cost == DictGet(base_costs, instance_type, 116) * instance_count
    IN  1000000 - 20 * hourly_cost

\* _calculate_cost_score(allocation), in 1/10000 point:
\* (hourly_cost / 5.0) * 100 points is 20 * hourly_cost in 1/10000 point
calculate_cost_score(allocation) ==
    LET instance_count == DictGet(allocation, "instance_count", 1)
        instance_type == DictGet(allocation, "instance_type", "t2.micro")
        hourly_cost == DictGet(base_costs, instance_type, 116) * instance_count
    IN  Max(0, 1000000 - 20 * hourly_cost)

\* lines 79-93: the score of one usage, in points
optimal_min == 60
optimal_max == 80

UsageScore(usage) ==
    IF optimal_min <= usage /\ usage <= optimal_max THEN 100
    ELSE IF usage < optimal_min THEN 100 - (optimal_min - usage) * 2
    ELSE 100 - (usage - optimal_max) * 3

\* _calculate_performance_score(metrics), in 1/10000 point
optimizer_performance_score(metrics) ==
    LET cpu_usage == DictGet(metrics, "cpu_usage", 0)
        memory_usage == DictGet(metrics, "memory_usage", 0)
        cpu_score == UsageScore(cpu_usage)
        memory_score == UsageScore(memory_usage)
        \* (cpu_score + memory_score) / 2
        performance_score == (cpu_score + memory_score) * 5000
    IN  Max(0, Min(1000000, performance_score))

\* calculate_optimization_score(allocation, metrics), in 1/100 point
calculate_optimization_score(allocation, metrics) ==
    LET cost_score == calculate_cost_score(allocation)
        performance_score == optimizer_performance_score(metrics)
        total_score == (COST_WEIGHT * cost_score
                        + PERFORMANCE_WEIGHT * performance_score) \div 10
    IN  PyRound(total_score, 100)

(***************************************************************************)
(* analyze_cost_trends(cost_history)                                       *)
(***************************************************************************)
\* lines 124-132: daily_costs, a dict in insertion order, as the sequence of
\* its <<date, total>> items
RECURSIVE AddToDay(_, _, _)
AddToDay(daily_costs, date, amount) ==
    IF daily_costs = <<>> THEN << <<date, amount>> >>
    ELSE IF daily_costs[1][1] = date
         THEN << <<date, daily_costs[1][2] + amount>> >> \o Tail(daily_costs)
         ELSE <<daily_costs[1]>> \o AddToDay(Tail(daily_costs), date, amount)

RECURSIVE DailyCosts(_, _)
DailyCosts(cost_history, k) ==
    IF k = 0 THEN <<>>
    ELSE AddToDay(DailyCosts(cost_history, k - 1),
                  cost_history[k]["timestamp"],
                  DictGet(cost_history[k], "cost", 0))

\* sum(costs[from..to])
RECURSIVE SumRange(_, _, _)
SumRange(costs, from, to) ==
    IF from > to THEN 0 ELSE costs[from] + SumRange(costs, from + 1, to)

\* mutant: ">=" for ">" in the test of an increasing trend
IsIncreasing_Inclusive(recent_sum, older_sum, older_len) ==
    10 * older_len * recent_sum >= 77 * older_sum

\* line 144: recent_avg > older_avg * 1.1, for recent_avg = recent_sum / 7 and
\* older_avg = older_sum / older_len
IsIncreasing(recent_sum, older_sum, older_len) ==
    10 * older_len * recent_sum > 77 * older_sum

\* line 146: recent_avg < older_avg * 0.9
IsDecreasing(recent_sum, older_sum, older_len) ==
    10 * older_len * recent_sum < 63 * older_sum

\* line 141: the length of the recent window
TrendWindow == 7

\* mutant: six daily buckets are taken as enough
EnoughDays_OffByOne(n) == n >= TrendWindow - 1

\* line 140: enough daily buckets to classify
EnoughDays(n) == n >= TrendWindow

analyze_cost_trends(cost_history) ==
    IF cost_history = <<>>
    THEN [trend |-> "stable", average_daily_cost |-> 0, total_cost |-> 0,
          projected_monthly_cost |-> 0]
    ELSE
        LET daily_costs == DailyCosts(cost_history, Len(cost_history))
            costs == [i \in 1..Len(daily_costs) |-> daily_costs[i][2]]
            n == Len(costs)
            total_cost == SumRange(costs, 1, n)
            \* sum(costs[-7:])
            recent_sum == SumRange(costs, Max(1, n - TrendWindow + 1), n)
            \* older_avg as the fraction older_sum / older_len
            older_sum == IF n > TrendWindow THEN SumRange(costs, 1, n - TrendWindow)
                         ELSE recent_sum
            older_len == IF n > TrendWindow THEN n - TrendWindow ELSE TrendWindow
            trend ==
                IF EnoughDays(n)
                THEN IF IsIncreasing(recent_sum, older_sum, older_len) THEN "increasing"
                     ELSE IF IsDecreasing(recent_sum, older_sum, older_len) THEN "decreasing"
                     ELSE "stable"
                ELSE "insufficient_data"
        IN  [trend |-> trend,
             average_daily_cost |-> PyRound(total_cost, n),
             total_cost |-> total_cost,
             projected_monthly_cost |-> PyRound(total_cost * 30, n),
             days_analyzed |-> n]

(***************************************************************************)
(* recommend_savings(current_allocation, metrics, predictions)             *)
(***************************************************************************)
\* line 212: 't2.' in instance_type, over the identifiers of the model
ContainsT2(instance_type) ==
    instance_type \in {"t2.micro", "t2.small", "t2.medium", "t2.large",
                       "t2.xlarge", "t2.2xlarge"}

\* line 190
IsUnderUtilized(cpu_usage, memory_usage) == cpu_usage < 30 /\ memory_usage < 30

\* line 201
IsConsistentlyLow(cpu_usage, predicted_cpu) == cpu_usage < 40 /\ predicted_cpu < 40

Suggestion(type, priority, potential_savings) ==
    [type |-> type, priority |-> priority, potential_savings |-> potential_savings]

\* mutant: the reserved suggestion is appended without the emptiness test
recommend_savings_AlwaysReserved(allocation, metrics, preds) ==
    LET cpu_usage == DictGet(metrics, "cpu_usage", 0)
        memory_usage == DictGet(metrics, "memory_usage", 0)
        predicted_cpu == DictGet(preds, "cpu_usage", 0)
        instance_type == DictGet(allocation, "instance_type", "")
        r1 == IF IsUnderUtilized(cpu_usage, memory_usage)
              THEN <<Suggestion("downsize", "high", "30-40%")>> ELSE <<>>
        r2 == IF IsConsistentlyLow(cpu_usage, predicted_cpu)
              THEN Append(r1, Suggestion("schedule", "medium", "20-30%")) ELSE r1
        r3 == IF ContainsT2(instance_type)
              THEN Append(r2, Suggestion("instance_type", "low", "10-20%")) ELSE r2
    IN  Append(r3, Suggestion("reserved", "low", "30-50%"))

recommend_savings(allocation, metrics, preds) ==
    LET cpu_usage == DictGet(metrics, "cpu_usage", 0)
        memory_usage == DictGet(metrics, "memory_usage", 0)
        predicted_cpu == DictGet(preds, "cpu_usage", 0)
        instance_type == DictGet(allocation, "instance_type", "")
        r1 == IF IsUnderUtilized(cpu_usage, memory_usage)
              THEN <<Suggestion("downsize", "high", "30-40%")>> ELSE <<>>
        r2 == IF IsConsistentlyLow(cpu_usage, predicted_cpu)
              THEN Append(r1, Suggestion("schedule", "medium", "20-30%")) ELSE r1
        r3 == IF ContainsT2(instance_type)
              THEN Append(r2, Suggestion("instance_type", "low", "10-20%")) ELSE r2
    IN  IF Len(r3) = 0
        THEN Append(r3, Suggestion("reserved", "low", "30-50%"))
        ELSE r3

(***************************************************************************)
(* calculate_roi(baseline_cost, optimized_cost, implementation_cost)       *)
(***************************************************************************)
\* mutant: only a loss gives an infinite payback period
PaybackIsInf_Negative(implementation_cost, monthly_savings) ==
    implementation_cost > 0 /\ monthly_savings < 0

\* line 254: the payback period; float('inf') is the flag payback_inf
PaybackIsInf(implementation_cost, monthly_savings) ==
    implementation_cost > 0 /\ ~(monthly_savings > 0)

calculate_roi(baseline_cost, optimized_cost, implementation_cost) ==
    LET monthly_savings == baseline_cost - optimized_cost
        annual_savings == monthly_savings * 12
        payback_inf == PaybackIsInf(implementation_cost, monthly_savings)
        \* round(payback_period, 1), in 1/10 month
        payback_period ==
            IF implementation_cost > 0
            THEN IF monthly_savings > 0
                 THEN PyRound(implementation_cost * 10, monthly_savings)
                 ELSE 0
            ELSE 0
        \* round(roi_percentage, 2), in 1/100 percent
        roi_percentage ==
            IF implementation_cost > 0
            THEN PyRound((annual_savings - implementation_cost) * 10000,
                         implementation_cost)
            ELSE 10000
        savings_percentage ==
            IF baseline_cost > 0
            THEN PyRound(monthly_savings * 10000, baseline_cost)
            ELSE 0
    IN  [monthly_savings |-> monthly_savings,
         annual_savings |-> annual_savings,
         implementation_cost |-> implementation_cost,
         payback_inf |-> payback_inf,
         payback_period_months |-> payback_period,
         roi_percentage |-> roi_percentage,
         savings_percentage |-> savings_percentage]

(***************************************************************************)
(* execute_allocation(recommendation) (allocator.py lines 154-201) and the *)
(* cloud providers it drives (services/cloud_provider.py).                 *)
(***************************************************************************)
\* mutant: maintain is dispatched as a scale-up
execute_branch_MaintainScales(action) ==
    IF action = "maintain" \/ action = "scale_up" THEN "scale_up"
    ELSE IF action = "scale_down" THEN "scale_down"
    ELSE "unknown"

\* mutant: optimize is dispatched as maintain
execute_branch_OptimizeMaintains(action) ==
    IF action = "maintain" \/ action = "optimize" THEN "maintain"
    ELSE IF action = "scale_up" THEN "scale_up"
    ELSE IF action = "scale_down" THEN "scale_down"
    ELSE "unknown"

\* lines 167, 174, 181, 188: the branch taken for an action
execute_branch(action) ==
    IF action = "maintain" THEN "maintain"
    ELSE IF action = "scale_up" THEN "scale_up"
    ELSE IF action = "scale_down" THEN "scale_down"
    ELSE "unknown"

\* a message: a format string and the values it is filled with
Message(text, values) == [text |-> text, values |-> values]

\* lines 175-178 and 182-185: the provider call made for a recommendation
ProviderCall(op, rec) ==
    [op |-> op,
     target_instances |-> rec.recommended_instances,
     instance_type |-> rec.recommended_instance_type]

\* mutant: a failure of the provider is reported as a success
execute_result_Reinterpreted(rec, provider_result) ==
    LET branch == execute_branch(rec.action)
    IN  IF branch = "maintain"
        THEN [success |-> TRUE, message |-> Message("No changes needed", <<>>),
              action |-> rec.action]
        ELSE IF branch = "unknown"
        THEN [success |-> FALSE,
              message |-> Message("Unknown action: {}", <<rec.action>>),
              action |-> rec.action]
        ELSE [provider_result EXCEPT !.success = TRUE]

\* lines 167-193: what execute_allocation returns; provider_result is what
\* the provider call of the scale_up or scale_down branch returned
execute_result(rec, provider_result) ==
    LET branch == execute_branch(rec.action)
    IN  IF branch = "maintain"
        THEN [success |-> TRUE, message |-> Message("No changes needed", <<>>),
              action |-> rec.action]
        ELSE IF branch = "unknown"
        THEN [success |-> FALSE,
              message |-> Message("Unknown action: {}", <<rec.action>>),
              action |-> rec.action]
        ELSE provider_result

\* an instance of a pool; the state is "running" throughout
Instance(instance_id, instance_type) ==
    [instance_id |-> instance_id, instance_type |-> instance_type]

\* get_current_resources of both providers, from the instances it lists
current_resources(listed) ==
    ("instance_count" :> Len(listed)) @@
    ("instance_type" :>
        (IF Len(listed) > 0 THEN listed[1].instance_type ELSE "t2.micro"))

\* a Python slice s[:n]
SlicePrefix(s, n) ==
    IF n >= 0 THEN SubSeq(s, 1, Min(n, Len(s)))
    ELSE SubSeq(s, 1, Max(0, Len(s) + n))

\* MockProvider.scale_up, lines 408-414: the pool after the appends, for the
\* count that line 408 read
mock_scale_up(pool, current_count, target_instances, instance_type) ==
    pool \o [i \in 1..Max(0, target_instances - current_count) |->
                Instance(current_count + i, instance_type)]

\* MockProvider.scale_up, lines 416-420
mock_scale_up_result(target_instances) ==
    [success |-> TRUE,
     message |-> Message("Scaled up to {} instances (mock)", <<target_instances>>),
     action |-> "scale_up"]

\* MockProvider.scale_down, lines 426-430
mock_scale_down_result(target_instances) ==
    [success |-> TRUE,
     message |-> Message("Scaled down to {} instances (mock)", <<target_instances>>),
     action |-> "scale_down"]

\* an identifier EC2 has not given to an instance of the pool
FreshId(pool) ==
    IF pool = <<>> THEN 1
    ELSE 1 + CHOOSE m \in {pool[i].instance_id : i \in 1..Len(pool)} :
                 \A i \in 1..Len(pool) : pool[i].instance_id <= m

\* AWSProvider.launch_instance, run_instances succeeding: the pool after it
aws_launch(pool, instance_type, count) ==
    pool \o [i \in 1..count |-> Instance(FreshId(pool) + i - 1, instance_type)]

\* AWSProvider.scale_up, lines 99-106: the target is already met
aws_already_result(op, text, current_count, target_instances) ==
    [success |-> TRUE, message |-> Message(text, <<>>), action |-> op,
     current_count |-> current_count, target_count |-> target_instances]

\* AWSProvider.scale_up, lines 113-120; launched is result['success'] of
\* launch_instance
aws_scale_up_result(launched, current_count, target_instances, new_instances) ==
    [success |-> launched,
     message |-> Message("Launched {} new instances",
                         <<target_instances - current_count>>),
     action |-> "scale_up",
     current_count |-> current_count, target_count |-> target_instances,
     new_instances |-> new_instances]

\* AWSProvider.scale_down, lines 161-168
aws_scale_down_result(terminated, current_count, target_instances) ==
    [success |-> TRUE,
     message |-> Message("Terminated {} instances", <<Len(terminated)>>),
     action |-> "scale_down",
     current_count |-> current_count, target_count |-> target_instances,
     terminated_instances |-> terminated]

\* the instances of a pool whose identifier is not in a set, in order
RECURSIVE RemoveIds(_, _)
RemoveIds(pool, ids) ==
    IF pool = <<>> THEN <<>>
    ELSE IF pool[1].instance_id \in ids THEN RemoveIds(Tail(pool), ids)
    ELSE <<pool[1]>> \o RemoveIds(Tail(pool), ids)

\* the identifiers of a sequence of instances, in order
Ids(s) == [i \in 1..Len(s) |-> s[i].instance_id]

\* the identifiers of a sequence that are not in a set, in order
RECURSIVE Without(_, _)
Without(ids, failed) ==
    IF ids = <<>> THEN <<>>
    ELSE IF ids[1] \in failed THEN Without(Tail(ids), failed)
    ELSE <<ids[1]>> \o Without(Tail(ids), failed)

(***************************************************************************)
(* State: the inputs of one control-loop tick and what the engine's        *)
(* operations returned for them.                                           *)
(***************************************************************************)
VARIABLES
    predictions,         \* the predicted sample (a dict)
    current_allocation,  \* the current allocation (a dict)
    budget_constraint,   \* the monthly budget, in cents
    recommendation,      \* result of calculate_required_resources
    optimized,           \* result of optimize_for_cost
    search_ran,          \* optimize_for_cost called _find_budget_optimal_config
    cost_estimate,       \* result of _estimate_cost for the current allocation
    called,              \* the operations that have returned
    tier_walk,           \* the tiers a sequence of steps went through
    tier_ops,            \* the steps taken: "up" or "down"
    opt_input,           \* the operation asked of the CostOptimizer, with its arguments
    opt_result,          \* what the operation returned
    opt_done,            \* the operation has returned
    provider,            \* the class of the cloud provider: "mock" or "aws"
    instances,           \* the instance pool of the fleet
    pc,                  \* where each request thread is in its handler
    rec,                 \* the recommendation each request executes
    seen,                \* the instances a provider call of the thread listed
    provider_result,     \* what the provider call of the thread returned
    result,              \* what execute_allocation returned to the thread
    calls,               \* the provider calls each execution made
    allocation_records,  \* the allocation records saved, oldest first
    loop_sample,         \* the predicted sample of the serialized control loop
    loop_pc,             \* the next step of the loop: "recommend" or "execute"
    loop_rec,            \* the recommendation of the current tick
    loop_result,         \* what execute_allocation returned in the last tick
    mock_calls,          \* the calls made on the MockProvider directly
    running,             \* WorkloadMonitor.running
    monitor_loops,       \* where each thread of _monitor_loop is, in start order
    monitor_calls,       \* the start_monitoring and stop_monitoring calls made
    stopped_loops,       \* the loops that were alive at a stop_monitoring call
    revived_loops        \* the stopped loops that went on to another sample

engineVars == <<predictions, current_allocation, budget_constraint, recommendation,
                optimized, search_ran, cost_estimate, called>>

tierVars == <<tier_walk, tier_ops>>

optVars == <<opt_input, opt_result, opt_done>>

fleetVars == <<provider, instances, pc, rec, seen, provider_result, result,
               calls, allocation_records>>

loopVars == <<loop_sample, loop_pc, loop_rec, loop_result, mock_calls>>

monitorVars == <<running, monitor_loops, monitor_calls, stopped_loops, revived_loops>>

vars == <<engineVars, tierVars, optVars, fleetVars, loopVars, monitorVars>>

\* the request threads of the server
NumThreads == 2
Threads == 1..NumThreads

\* predicted samples; a sample may lack cpu_usage or memory_usage
Samples ==
    {("cpu_usage" :> c) @@ ("memory_usage" :> m) : c \in CpuValues, m \in MemValues}
    \cup {("memory_usage" :> m) : m \in MemValues}
    \cup {("cpu_usage" :> c) : c \in CpuValues}

Allocations ==
    {("instance_count" :> n) @@ ("instance_type" :> t) :
        n \in 0..MaxInstances, t \in InstanceTypes}

\* no step of a tier has been taken
TierIdle ==
    /\ tier_walk = <<>>
    /\ tier_ops = <<>>

\* the CostOptimizer has not been asked anything
OptimizerIdle ==
    /\ opt_input = [op |-> "none"]
    /\ opt_result = None
    /\ opt_done = FALSE

\* MockProvider.__init__ and no request received
FleetIdle ==
    /\ provider = "mock"
    /\ instances = <<Instance(1, "t2.small")>>
    /\ pc = [t \in Threads |-> "idle"]
    /\ rec = [t \in Threads |-> None]
    /\ seen = [t \in Threads |-> <<>>]
    /\ provider_result = [t \in Threads |-> None]
    /\ result = [t \in Threads |-> None]
    /\ calls = [t \in Threads |-> <<>>]
    /\ allocation_records = <<>>

\* WorkloadMonitor.__init__: not running, no loop started
MonitorIdle ==
    /\ running = FALSE
    /\ monitor_loops = <<>>
    /\ monitor_calls = <<>>
    /\ stopped_loops = {}
    /\ revived_loops = {}

\* no control loop runs and no call is made on the provider directly
LoopIdle ==
    /\ loop_sample = ("cpu_usage" :> 50) @@ ("memory_usage" :> 60)
    /\ loop_pc = "recommend"
    /\ loop_rec = None
    /\ loop_result = None
    /\ mock_calls = <<>>

Init ==
    /\ predictions \in Samples
    /\ current_allocation \in Allocations
    /\ budget_constraint \in Budgets
    /\ recommendation = None
    /\ optimized = None
    /\ search_ran = FALSE
    /\ cost_estimate = None
    /\ called = {}
    /\ TierIdle
    /\ OptimizerIdle
    /\ FleetIdle
    /\ LoopIdle
    /\ MonitorIdle

Recommend ==
    /\ recommendation' = calculate_required_resources(predictions, current_allocation)
    /\ called' = called \cup {"calculate_required_resources"}
    /\ UNCHANGED <<predictions, current_allocation, budget_constraint,
                   optimized, search_ran, cost_estimate>>
    /\ UNCHANGED <<tierVars, optVars, fleetVars, loopVars, monitorVars>>

OptimizeForCost ==
    /\ optimized' = optimize_for_cost(predictions, current_allocation, budget_constraint)
    /\ search_ran' = SearchRuns(predictions, current_allocation, budget_constraint)
    /\ called' = called \cup {"optimize_for_cost"}
    /\ UNCHANGED <<predictions, current_allocation, budget_constraint,
                   recommendation, cost_estimate>>
    /\ UNCHANGED <<tierVars, optVars, fleetVars, loopVars, monitorVars>>

EstimateCost ==
    /\ cost_estimate' = estimate_cost(current_allocation["instance_count"],
                                      current_allocation["instance_type"])
    /\ called' = called \cup {"_estimate_cost"}
    /\ UNCHANGED <<predictions, current_allocation, budget_constraint,
                   recommendation, optimized, search_ran>>
    /\ UNCHANGED <<tierVars, optVars, fleetVars, loopVars, monitorVars>>

Next == Recommend \/ OptimizeForCost \/ EstimateCost

Spec == Init /\ [][Next]_vars

(***************************************************************************)
(* Tier stepping: a tier is stepped up and down repeatedly, as successive  *)
(* recommendations do (allocator.py lines 59 and 72).                      *)
(***************************************************************************)
MaxSteps == 3

\* the engine has been given one fixed input and has not been called
EngineIdle ==
    /\ predictions = ("cpu_usage" :> 50) @@ ("memory_usage" :> 60)
    /\ current_allocation = ("instance_count" :> 1) @@ ("instance_type" :> "t2.small")
    /\ budget_constraint = 0
    /\ recommendation = None
    /\ optimized = None
    /\ search_ran = FALSE
    /\ cost_estimate = None
    /\ called = {}

TierInit ==
    /\ tier_walk \in {<<t>> : t \in InstanceTypes}
    /\ tier_ops = <<>>
    /\ EngineIdle
    /\ OptimizerIdle
    /\ FleetIdle
    /\ LoopIdle
    /\ MonitorIdle

StepUp ==
    /\ Len(tier_ops) < MaxSteps
    /\ tier_walk' = Append(tier_walk, get_larger_instance_type(tier_walk[Len(tier_walk)]))
    /\ tier_ops' = Append(tier_ops, "up")
    /\ UNCHANGED <<engineVars, optVars, fleetVars, loopVars, monitorVars>>

StepDown ==
    /\ Len(tier_ops) < MaxSteps
    /\ tier_walk' = Append(tier_walk, get_smaller_instance_type(tier_walk[Len(tier_walk)]))
    /\ tier_ops' = Append(tier_ops, "down")
    /\ UNCHANGED <<engineVars, optVars, fleetVars, loopVars, monitorVars>>

TierNext == StepUp \/ StepDown

TierSpec == TierInit /\ [][TierNext]_vars

(***************************************************************************)
(* The CostOptimizer: one operation is asked with its arguments and        *)
(* returns.                                                                *)
(***************************************************************************)
\* the largest number of calendar dates of a cost history
MaxDays == 8

\* usages of the metrics, negative and above 100 included
UsageValues == {-50, 0, 29, 30, 39, 40, 60, 80, 100, 400}

Metrics ==
    {("cpu_usage" :> c) @@ ("memory_usage" :> m) : c \in UsageValues, m \in UsageValues}
    \cup {("memory_usage" :> m) : m \in UsageValues}

\* allocations to score: from no instance to a fleet costing far above 5 USD per hour
ScoredAllocations ==
    {("instance_count" :> n) @@ ("instance_type" :> t) :
        n \in {0, 1, 27, 500}, t \in {"t2.micro", "t2.xlarge", "t3.micro", UnknownType}}

\* daily totals in cents: 100.00 and the values 10% below and above it
DayCosts == {9000, 10000, 11000}

\* a cost record: its date and its cost
CostRecord(date, amount) == ("timestamp" :> date) @@ ("cost" :> amount)

\* the history of one record per date on the consecutive dates 1..n in
\* ascending order, with the costs f; with extra, a second record on the
\* last date
CostHistory(n, f, extra) ==
    LET daily == [i \in 1..n |-> CostRecord(i, f[i])]
    IN  IF extra THEN Append(daily, CostRecord(n, 1000)) ELSE daily

SavingsInputs ==
    [op : {"savings"},
     allocation : {("instance_type" :> t) : t \in {"t2.small", "t3.small", UnknownType}}
                  \cup {("instance_count" :> 1)},
     metrics : {("cpu_usage" :> c) @@ ("memory_usage" :> m) :
                    c \in {0, 29, 30, 39, 40, 60}, m \in {0, 29, 30}},
     predictions : {("cpu_usage" :> c) : c \in {0, 39, 40, 80}}]

RoiInputs ==
    [op : {"roi"},
     baseline_cost : {0, 100, 250},
     optimized_cost : {0, 40, 100, 300},
     implementation_cost : {0, 100, 500, 1000}]

\* a sequence in the opposite order
Reverse(s) == [i \in 1..Len(s) |-> s[Len(s) + 1 - i]]

OptimizerInit ==
    /\ \/ opt_input \in
             [op : {"score"}, allocation : ScoredAllocations, metrics : Metrics]
             \cup SavingsInputs
             \cup RoiInputs
       \/ \E n \in 0..MaxDays, extra \in BOOLEAN :
             /\ extra => n > 0
             /\ \E f \in [1..n -> DayCosts] :
                   opt_input = [op |-> "trend",
                                cost_history |-> CostHistory(n, f, extra)]
       \* the same records as the store returns them newest first
       \/ \E n \in 2..MaxDays :
             \E f \in [1..n -> DayCosts] :
                 opt_input = [op |-> "trend",
                              cost_history |-> Reverse(CostHistory(n, f, FALSE))]
    /\ opt_result = None
    /\ opt_done = FALSE
    /\ EngineIdle
    /\ TierIdle
    /\ FleetIdle
    /\ LoopIdle
    /\ MonitorIdle

CalculateOptimizationScore ==
    /\ opt_input.op = "score"
    /\ opt_result' = calculate_optimization_score(opt_input.allocation, opt_input.metrics)
    /\ opt_done' = TRUE
    /\ UNCHANGED <<opt_input, engineVars, tierVars, fleetVars, loopVars, monitorVars>>

AnalyzeCostTrends ==
    /\ opt_input.op = "trend"
    /\ opt_result' = analyze_cost_trends(opt_input.cost_history)
    /\ opt_done' = TRUE
    /\ UNCHANGED <<opt_input, engineVars, tierVars, fleetVars, loopVars, monitorVars>>

RecommendSavings ==
    /\ opt_input.op = "savings"
    /\ opt_result' = recommend_savings(opt_input.allocation, opt_input.metrics,
                                       opt_input.predictions)
    /\ opt_done' = TRUE
    /\ UNCHANGED <<opt_input, engineVars, tierVars, fleetVars, loopVars, monitorVars>>

CalculateRoi ==
    /\ opt_input.op = "roi"
    /\ opt_result' = calculate_roi(opt_input.baseline_cost, opt_input.optimized_cost,
                                   opt_input.implementation_cost)
    /\ opt_done' = TRUE
    /\ UNCHANGED <<opt_input, engineVars, tierVars, fleetVars, loopVars, monitorVars>>

OptimizerNext ==
    \/ CalculateOptimizationScore
    \/ AnalyzeCostTrends
    \/ RecommendSavings
    \/ CalculateRoi

OptimizerSpec == OptimizerInit /\ [][OptimizerNext]_vars

(***************************************************************************)
(* The fleet: the request threads of the server run the allocate route     *)
(* (app.py lines 378-427) against one provider; a step of a thread is one  *)
(* stretch of the route between two accesses to the instance pool.         *)
(***************************************************************************)
\* the first prediction of the latest forecast
ForecastCpu == {50, 95}

\* app.py lines 396-400
predictions_data(cpu) ==
    ("cpu_usage" :> cpu) @@ ("memory_usage" :> 60) @@ ("network_usage" :> 40)

\* the first prediction of the latest stored forecast: a number, or null
FirstPredictions == {[number |-> c] : c \in ForecastCpu} \cup {None}

\* app.py lines 396-407: the recommendation generated from the first
\* prediction and the listed pool; with a null prediction the comparison of
\* allocator.py line 52 raises and calculate_required_resources returns
\* None (lines 86-88)
generate_recommendation(first_prediction, listed) ==
    IF first_prediction = None THEN None
    ELSE calculate_required_resources(predictions_data(first_prediction.number),
                                      current_resources(listed))

\* recommendations a request body carries (app.py line 385): the result of
\* the budget search, a scale-down, one of an action the engine never emits
\* and a JSON null
SuppliedRecommendations ==
    {find_budget_optimal_config(predictions_data(50),
                                current_resources(<<Instance(1, "t2.small")>>),
                                10000),
     calculate_required_resources(
         ("cpu_usage" :> 20) @@ ("memory_usage" :> 20),
         ("instance_count" :> 2) @@ ("instance_type" :> "t2.small")),
     [action |-> "resize", recommended_instances |-> 2,
      recommended_instance_type |-> "t2.small"],
     None}

\* the pools a provider starts with
InitialPools(kind) ==
    IF kind = "mock" THEN {<<Instance(1, "t2.small")>>}
    ELSE {<<Instance(1, "t2.small")>>,
          <<Instance(1, "t2.small"), Instance(2, "t2.small")>>}

\* what listing the pool gives: describe_instances of AWSProvider may raise,
\* and get_current_resources then reports no instance
Listings ==
    IF provider = "aws" THEN {instances, <<>>} ELSE {instances}

FleetInit ==
    /\ provider \in {"mock", "aws"}
    /\ instances \in InitialPools(provider)
    /\ pc = [t \in Threads |-> "idle"]
    /\ rec = [t \in Threads |-> None]
    /\ seen = [t \in Threads |-> <<>>]
    /\ provider_result = [t \in Threads |-> None]
    /\ result = [t \in Threads |-> None]
    /\ calls = [t \in Threads |-> <<>>]
    /\ allocation_records = <<>>
    /\ EngineIdle
    /\ TierIdle
    /\ OptimizerIdle
    /\ LoopIdle
    /\ MonitorIdle

\* app.py lines 382-407: the recommendation is taken from the request or
\* generated from the latest forecast and the pool
Allocate(t) ==
    /\ pc[t] = "idle"
    /\ \/ \E r \in SuppliedRecommendations :
            /\ rec' = [rec EXCEPT ![t] = r]
            /\ pc' = [pc EXCEPT ![t] = "execute"]
       \/ \E first_prediction \in FirstPredictions, listed \in Listings :
            /\ rec' = [rec EXCEPT ![t] =
                          generate_recommendation(first_prediction, listed)]
            /\ pc' = [pc EXCEPT ![t] = "execute"]
       \/ /\ pc' = [pc EXCEPT ![t] = "rejected"]
          /\ UNCHANGED rec
    /\ UNCHANGED <<provider, instances, seen, provider_result, result, calls,
                   allocation_records>>
    /\ UNCHANGED <<engineVars, tierVars, optVars, loopVars, monitorVars>>

\* allocator.py lines 165-201: the dispatch on the action.  With the
\* recommendation None, line 165 raises, the handler of line 195 raises
\* again at line 200 (None has no get) and the exception leaves
\* execute_allocation; the route answers 500 (app.py lines 425-427)
ExecuteAllocation(t) ==
    /\ pc[t] = "execute"
    /\ IF rec[t] = None
       THEN /\ pc' = [pc EXCEPT ![t] = "raised"]
            /\ UNCHANGED calls
       ELSE LET branch == execute_branch(rec[t].action)
            IN  IF branch \in {"scale_up", "scale_down"}
                THEN /\ calls' = [calls EXCEPT ![t] =
                                     Append(@, ProviderCall(branch, rec[t]))]
                     /\ pc' = [pc EXCEPT ![t] = branch]
                ELSE /\ pc' = [pc EXCEPT ![t] = "returned"]
                     /\ UNCHANGED calls
    /\ UNCHANGED <<provider, instances, rec, seen, provider_result, result,
                   allocation_records>>
    /\ UNCHANGED <<engineVars, tierVars, optVars, loopVars, monitorVars>>

\* the arguments of the provider call the thread is in
Target(t) == calls[t][Len(calls[t])].target_instances
TargetType(t) == calls[t][Len(calls[t])].instance_type

\* scale_up reads the current count: MockProvider line 408, AWSProvider
\* lines 96-106
ScaleUpRead(t) ==
    /\ pc[t] = "scale_up"
    /\ \E listed \in Listings :
          /\ seen' = [seen EXCEPT ![t] = listed]
          /\ IF provider = "aws" /\ Target(t) <= Len(listed)
             THEN /\ provider_result' = [provider_result EXCEPT ![t] =
                        aws_already_result("scale_up",
                            "Already at or above target instance count",
                            Len(listed), Target(t))]
                  /\ pc' = [pc EXCEPT ![t] = "returned"]
             ELSE /\ pc' = [pc EXCEPT ![t] = "launch"]
                  /\ UNCHANGED provider_result
    /\ UNCHANGED <<provider, instances, rec, result, calls, allocation_records>>
    /\ UNCHANGED <<engineVars, tierVars, optVars, loopVars, monitorVars>>

\* scale_up adds the instances: MockProvider lines 409-420, AWSProvider
\* lines 108-120 with launch_instance
ScaleUpLaunch(t) ==
    /\ pc[t] = "launch"
    /\ LET current_count == Len(seen[t])
       IN  IF provider = "mock"
           THEN /\ instances' = mock_scale_up(instances, current_count,
                                              Target(t), TargetType(t))
                /\ provider_result' = [provider_result EXCEPT ![t] =
                                          mock_scale_up_result(Target(t))]
           ELSE \E launched \in BOOLEAN :
                   LET after == aws_launch(instances, TargetType(t),
                                           Target(t) - current_count)
                   IN  /\ instances' = IF launched THEN after ELSE instances
                       /\ provider_result' = [provider_result EXCEPT ![t] =
                             aws_scale_up_result(launched, current_count, Target(t),
                                 IF launched
                                 THEN SubSeq(Ids(after), Len(instances) + 1, Len(after))
                                 ELSE <<>>)]
    /\ pc' = [pc EXCEPT ![t] = "returned"]
    /\ UNCHANGED <<provider, rec, seen, result, calls, allocation_records>>
    /\ UNCHANGED <<engineVars, tierVars, optVars, loopVars, monitorVars>>

\* scale_down reads the pool: MockProvider line 424 (the operand of the
\* slice), AWSProvider lines 133-143
ScaleDownRead(t) ==
    /\ pc[t] = "scale_down"
    /\ \E listed \in Listings :
          /\ seen' = [seen EXCEPT ![t] = listed]
          /\ IF provider = "aws" /\ Target(t) >= Len(listed)
             THEN /\ provider_result' = [provider_result EXCEPT ![t] =
                        aws_already_result("scale_down",
                            "Already at or below target instance count",
                            Len(listed), Target(t))]
                  /\ pc' = [pc EXCEPT ![t] = "returned"]
             ELSE /\ pc' = [pc EXCEPT ![t] = "terminate"]
                  /\ UNCHANGED provider_result
    /\ UNCHANGED <<provider, instances, rec, result, calls, allocation_records>>
    /\ UNCHANGED <<engineVars, tierVars, optVars, loopVars, monitorVars>>

\* scale_down removes the instances: MockProvider lines 424-430 (the
\* assignment of the slice), AWSProvider lines 145-168 with
\* terminate_instance, the oldest instances first
ScaleDownTerminate(t) ==
    /\ pc[t] = "terminate"
    /\ LET current_count == Len(seen[t])
       IN  IF provider = "mock"
           THEN /\ instances' = SlicePrefix(seen[t], Target(t))
                /\ provider_result' = [provider_result EXCEPT ![t] =
                                          mock_scale_down_result(Target(t))]
           ELSE LET chosen == SubSeq(Ids(seen[t]), 1, current_count - Target(t))
                IN  \E failed \in SUBSET {chosen[i] : i \in 1..Len(chosen)} :
                       LET terminated == Without(chosen, failed)
                       IN  /\ instances' = RemoveIds(instances,
                                  {terminated[i] : i \in 1..Len(terminated)})
                           /\ provider_result' = [provider_result EXCEPT ![t] =
                                  aws_scale_down_result(terminated, current_count,
                                                        Target(t))]
    /\ pc' = [pc EXCEPT ![t] = "returned"]
    /\ UNCHANGED <<provider, rec, seen, result, calls, allocation_records>>
    /\ UNCHANGED <<engineVars, tierVars, optVars, loopVars, monitorVars>>

\* execute_allocation returns and the route saves the allocation record:
\* allocator.py lines 168-193, app.py lines 410-423
Respond(t) ==
    /\ pc[t] = "returned"
    /\ result' = [result EXCEPT ![t] = execute_result(rec[t], provider_result[t])]
    /\ allocation_records' = Append(allocation_records,
                                    [recommendation |-> rec[t],
                                     result |-> result'[t]])
    /\ pc' = [pc EXCEPT ![t] = "done"]
    /\ UNCHANGED <<provider, instances, rec, seen, provider_result, calls>>
    /\ UNCHANGED <<engineVars, tierVars, optVars, loopVars, monitorVars>>

FleetNext ==
    \E t \in Threads :
        \/ Allocate(t)
        \/ ExecuteAllocation(t)
        \/ ScaleUpRead(t)
        \/ ScaleUpLaunch(t)
        \/ ScaleDownRead(t)
        \/ ScaleDownTerminate(t)
        \/ Respond(t)

FleetSpec == FleetInit /\ [][FleetNext]_vars

(***************************************************************************)
(* The serialized control loop against the MockProvider: a tick reads the  *)
(* current allocation and recommends (app.py lines 403-407), then executes *)
(* (line 410); the next tick starts when the execution has returned.       *)
(***************************************************************************)
\* the longest pool of the loop and of the direct calls
MaxPool == 3

\* the constant predicted samples of a loop
LoopSamples ==
    {("cpu_usage" :> c) @@ ("memory_usage" :> m) :
        c \in {10, 29, 50, 85, 95}, m \in {20, 34, 60}}

\* the pools earlier ticks leave: the instance of MockProvider.__init__
\* followed by instances that scale_up appended
LoopPools ==
    {<<Instance(1, "t2.small")>>}
    \cup {<<Instance(1, "t2.small"), Instance(2, t)>> : t \in {"t2.small", "t2.medium"}}
    \cup {<<Instance(1, "t2.small"), Instance(2, t), Instance(3, u)>> :
            t \in {"t2.small", "t2.medium"}, u \in {"t2.small", "t2.medium"}}

\* the request threads are idle and the provider is the MockProvider
ThreadsIdle ==
    /\ provider = "mock"
    /\ pc = [t \in Threads |-> "idle"]
    /\ rec = [t \in Threads |-> None]
    /\ seen = [t \in Threads |-> <<>>]
    /\ provider_result = [t \in Threads |-> None]
    /\ result = [t \in Threads |-> None]
    /\ calls = [t \in Threads |-> <<>>]
    /\ allocation_records = <<>>

LoopInit ==
    /\ loop_sample \in LoopSamples
    /\ instances \in LoopPools
    /\ loop_pc = "recommend"
    /\ loop_rec = None
    /\ loop_result = None
    /\ mock_calls = <<>>
    /\ ThreadsIdle
    /\ EngineIdle
    /\ TierIdle
    /\ OptimizerIdle
    /\ MonitorIdle

\* app.py lines 403-407: get_current_resources, calculate_required_resources
LoopRecommend ==
    /\ loop_pc = "recommend"
    /\ Len(instances) <= MaxPool
    /\ loop_rec' = calculate_required_resources(loop_sample,
                                                current_resources(instances))
    /\ loop_pc' = "execute"
    /\ UNCHANGED <<loop_sample, loop_result, mock_calls, fleetVars>>
    /\ UNCHANGED <<engineVars, tierVars, optVars, monitorVars>>

\* MockProvider.scale_up and scale_down called alone: the pool after the
\* call of an execution (cloud_provider.py lines 406-430)
mock_execute(pool, call) ==
    IF call.op = "scale_up"
    THEN mock_scale_up(pool, Len(pool), call.target_instances, call.instance_type)
    ELSE SlicePrefix(pool, call.target_instances)

\* what the call returned
mock_result(call) ==
    IF call.op = "scale_up" THEN mock_scale_up_result(call.target_instances)
    ELSE mock_scale_down_result(call.target_instances)

\* app.py line 410: execute_allocation with the MockProvider, alone
LoopExecute ==
    /\ loop_pc = "execute"
    /\ LET branch == execute_branch(loop_rec.action)
       IN  IF branch \in {"scale_up", "scale_down"}
           THEN LET call == ProviderCall(branch, loop_rec)
                IN  /\ instances' = mock_execute(instances, call)
                    /\ loop_result' = execute_result(loop_rec, mock_result(call))
           ELSE /\ instances' = instances
                /\ loop_result' = execute_result(loop_rec, None)
    /\ loop_pc' = "recommend"
    /\ UNCHANGED <<loop_sample, loop_rec, mock_calls>>
    /\ UNCHANGED <<provider, pc, rec, seen, provider_result, result, calls,
                   allocation_records>>
    /\ UNCHANGED <<engineVars, tierVars, optVars, monitorVars>>

LoopNext == LoopRecommend \/ LoopExecute

LoopSpec == LoopInit /\ [][LoopNext]_vars

\* the loop keeps ticking
LoopFairSpec == LoopSpec /\ WF_vars(LoopRecommend) /\ WF_vars(LoopExecute)

(***************************************************************************)
(* The MockProvider called directly: any sequence of scale_up, scale_down, *)
(* launch_instance and terminate_instance, one call at a time.             *)
(***************************************************************************)
\* the largest number of direct calls
MaxCalls == 3

\* MockProvider.launch_instance, lines 434-442
mock_launch_instance(pool, instance_type, count) ==
    mock_scale_up(pool, Len(pool), Len(pool) + count, instance_type)

\* MockProvider.terminate_instance, line 451
mock_terminate_instance(pool, instance_id) == RemoveIds(pool, {instance_id})

MockInit ==
    /\ FleetIdle
    /\ LoopIdle
    /\ MonitorIdle
    /\ EngineIdle
    /\ TierIdle
    /\ OptimizerIdle

\* the frame of a direct call
MockCall(call, pool) ==
    /\ Len(mock_calls) < MaxCalls
    /\ Len(pool) <= MaxPool
    /\ instances' = pool
    /\ mock_calls' = Append(mock_calls, call)
    /\ UNCHANGED <<loop_sample, loop_pc, loop_rec, loop_result>>
    /\ UNCHANGED <<provider, pc, rec, seen, provider_result, result, calls,
                   allocation_records>>
    /\ UNCHANGED <<engineVars, tierVars, optVars, monitorVars>>

MockScaleUp ==
    \E target \in 0..MaxPool, type \in {"t2.small", "t2.medium"} :
        MockCall([op |-> "scale_up", target_instances |-> target, instance_type |-> type],
                 mock_scale_up(instances, Len(instances), target, type))

MockScaleDown ==
    \E target \in 0..MaxPool, type \in {"t2.small", "t2.medium"} :
        MockCall([op |-> "scale_down", target_instances |-> target, instance_type |-> type],
                 SlicePrefix(instances, target))

MockLaunchInstance ==
    \E type \in {"t2.small", "t2.medium"}, count \in 1..2 :
        MockCall([op |-> "launch_instance", instance_type |-> type, count |-> count],
                 mock_launch_instance(instances, type, count))

MockTerminateInstance ==
    \E id \in 1..(MaxPool + 1) :
        MockCall([op |-> "terminate_instance", instance_id |-> id],
                 mock_terminate_instance(instances, id))

MockNext ==
    \/ MockScaleUp
    \/ MockScaleDown
    \/ MockLaunchInstance
    \/ MockTerminateInstance

MockSpec == MockInit /\ [][MockNext]_vars

(***************************************************************************)
(* services/monitoring.py: start_monitoring, stop_monitoring and the       *)
(* threads of _monitor_loop.  A loop is at "check" before it evaluates     *)
(* `while self.running`, at "sleep" inside the body (sample, callback,     *)
(* time.sleep), and "exited" once the condition was false.                 *)
(***************************************************************************)
\* the largest number of start_monitoring and stop_monitoring calls
MaxMonitorCalls == 5

MonitorInit ==
    /\ MonitorIdle
    /\ FleetIdle
    /\ LoopIdle
    /\ EngineIdle
    /\ TierIdle
    /\ OptimizerIdle

\* the loops that have not exited
AliveLoops == {l \in DOMAIN monitor_loops : monitor_loops[l] # "exited"}

\* lines 136-148
StartMonitoring ==
    /\ Len(monitor_calls) < MaxMonitorCalls
    /\ monitor_calls' = Append(monitor_calls, "start")
    /\ IF running
       THEN UNCHANGED <<running, monitor_loops>>
       ELSE /\ running' = TRUE
            /\ monitor_loops' = Append(monitor_loops, "check")
    /\ UNCHANGED <<stopped_loops, revived_loops>>
    /\ UNCHANGED <<engineVars, tierVars, optVars, fleetVars, loopVars>>

\* lines 165-168
StopMonitoring ==
    /\ Len(monitor_calls) < MaxMonitorCalls
    /\ monitor_calls' = Append(monitor_calls, "stop")
    /\ running' = FALSE
    /\ stopped_loops' = stopped_loops \cup AliveLoops
    /\ UNCHANGED <<monitor_loops, revived_loops>>
    /\ UNCHANGED <<engineVars, tierVars, optVars, fleetVars, loopVars>>

\* line 152: the loop evaluates its condition, and samples (lines 154-157)
\* when it is true
MonitorLoopCheck(l) ==
    /\ monitor_loops[l] = "check"
    /\ monitor_loops' = [monitor_loops EXCEPT ![l] = IF running THEN "sleep" ELSE "exited"]
    /\ revived_loops' = IF running /\ l \in stopped_loops
                        THEN revived_loops \cup {l} ELSE revived_loops
    /\ UNCHANGED <<running, monitor_calls, stopped_loops>>
    /\ UNCHANGED <<engineVars, tierVars, optVars, fleetVars, loopVars>>

\* line 159: time.sleep returns
MonitorLoopWake(l) ==
    /\ monitor_loops[l] = "sleep"
    /\ monitor_loops' = [monitor_loops EXCEPT ![l] = "check"]
    /\ UNCHANGED <<running, monitor_calls, stopped_loops, revived_loops>>
    /\ UNCHANGED <<engineVars, tierVars, optVars, fleetVars, loopVars>>

MonitorNext ==
    \/ StartMonitoring
    \/ StopMonitoring
    \/ \E l \in DOMAIN monitor_loops : MonitorLoopCheck(l)
    \/ \E l \in DOMAIN monitor_loops : MonitorLoopWake(l)

MonitorSpec == MonitorInit /\ [][MonitorNext]_vars

(***************************************************************************)
(* Vocabulary of the properties.                                           *)
(***************************************************************************)
\* the fields of the inputs, a missing percentage read as 0
SampleCpu == DictGet(predictions, "cpu_usage", 0)
SampleMemory == DictGet(predictions, "memory_usage", 0)
CurrentCount == current_allocation["instance_count"]
CurrentType == current_allocation["instance_type"]

Recommended == "calculate_required_resources" \in called
Optimized == "optimize_for_cost" \in called
Estimated == "_estimate_cost" \in called

\* the order micro < small < medium < large < xlarge < 2xlarge of a family
TierLadders ==
    << <<"t2.micro", "t2.small", "t2.medium", "t2.large", "t2.xlarge", "t2.2xlarge">>,
       <<"t3.micro", "t3.small", "t3.medium", "t3.large", "t3.xlarge", "t3.2xlarge">> >>

\* u is the tier one position above t in the family of t
OneLevelAbove(t, u) ==
    \E f \in DOMAIN TierLadders : \E i \in 1..(Len(TierLadders[f]) - 1) :
        TierLadders[f][i] = t /\ TierLadders[f][i + 1] = u

HasLargerNeighbour(t) == \E u \in KnownTypes : OneLevelAbove(t, u)
HasSmallerNeighbour(t) == \E u \in KnownTypes : OneLevelAbove(u, t)

\* the (tier, count) pairs of the search grid
SearchGrid == {"t2.micro", "t2.small", "t2.medium", "t2.large"} \X (1..5)

\* the smallest hourly unit price of the price table
CheapestPrice == CHOOSE p \in {pricing[t] : t \in KnownTypes} :
                    \A t \in KnownTypes : p <= pricing[t]

(***************************************************************************)
(* Properties of calculate_required_resources.                             *)
(***************************************************************************)
\* C1: a predicted sample with cpu > 80 or memory > 85 yields scale_up with
\* recommended_instances = current instance_count + 1, for every allocation.
C1_ScaleUp ==
    (Recommended /\ (SampleCpu > 80 \/ SampleMemory > 85)) =>
        /\ recommendation.action = "scale_up"
        /\ recommendation.recommended_instances = CurrentCount + 1

\* the memory alone is above its threshold and the engine scales up
C1_Witness ==
    /\ Recommended
    /\ SampleCpu <= 80 /\ SampleMemory > 85
    /\ recommendation.action = "scale_up"
    /\ recommendation.recommended_instances = CurrentCount + 1

\* C2: a predicted sample with cpu < 30 and memory < 35 and more than one
\* instance yields scale_down with one instance fewer and the tier unchanged.
C2_ScaleDown ==
    (Recommended /\ SampleCpu < 30 /\ SampleMemory < 35 /\ CurrentCount > 1) =>
        /\ recommendation.action = "scale_down"
        /\ recommendation.recommended_instances = CurrentCount - 1
        /\ recommendation.recommended_instance_type = CurrentType

\* low usage just below both thresholds on a fleet of three
C2_Witness ==
    /\ Recommended
    /\ SampleCpu = 29 /\ SampleMemory = 34 /\ CurrentCount = 3
    /\ recommendation.action = "scale_down"
    /\ recommendation.recommended_instances = 2

\* C3: with cpu < 30 and memory < 35 and exactly one instance, the engine
\* either scales down to the tier one level below with the count still 1,
\* or maintains when the tier has no smaller neighbour; the recommended
\* count is never zero or negative.
C3_SingleInstance ==
    (Recommended /\ SampleCpu < 30 /\ SampleMemory < 35 /\ CurrentCount = 1) =>
        /\ recommendation.recommended_instances = 1
        /\ \/ /\ recommendation.action = "scale_down"
              /\ OneLevelAbove(recommendation.recommended_instance_type, CurrentType)
           \/ /\ recommendation.action = "maintain"
              /\ ~HasSmallerNeighbour(CurrentType)
              /\ recommendation.recommended_instance_type = CurrentType

\* a single t2.large is stepped down to t2.medium
C3_Witness ==
    /\ Recommended
    /\ SampleCpu < 30 /\ SampleMemory < 35 /\ CurrentCount = 1
    /\ CurrentType = "t2.large"
    /\ recommendation.action = "scale_down"
    /\ recommendation.recommended_instance_type = "t2.medium"

\* C4: when neither the scale-up nor the scale-down condition holds, the
\* engine maintains: the recommended count and tier are the current ones.
C4_Maintain ==
    (/\ Recommended
     /\ ~(SampleCpu > 80 \/ SampleMemory > 85)
     /\ ~(SampleCpu < 30 /\ SampleMemory < 35)) =>
        /\ recommendation.action = "maintain"
        /\ recommendation.recommended_instances = CurrentCount
        /\ recommendation.recommended_instance_type = CurrentType

\* both percentages sit exactly on a threshold of the band
C4_Witness ==
    /\ Recommended
    /\ SampleCpu = 30 /\ SampleMemory = 0 /\ CurrentCount = 2
    /\ recommendation.action = "maintain"
    /\ recommendation.recommended_instances = 2

\* C5 as stated: on scale_up the recommended tier is the tier one level
\* above the current tier when cpu > 90 or memory > 90, and the current tier
\* otherwise.
C5_AlwaysOneLevelUp ==
    (Recommended /\ recommendation.action = "scale_up") =>
        IF SampleCpu > 90 \/ SampleMemory > 90
        THEN OneLevelAbove(CurrentType, recommendation.recommended_instance_type)
        ELSE recommendation.recommended_instance_type = CurrentType

\* C5 amended: on scale_up the recommended tier is the tier one level above
\* the current tier when cpu > 90 or memory > 90 and the current tier has a
\* larger neighbour, and the current tier otherwise.
C5_VerticalScaling ==
    (Recommended /\ recommendation.action = "scale_up") =>
        IF (SampleCpu > 90 \/ SampleMemory > 90) /\ HasLargerNeighbour(CurrentType)
        THEN OneLevelAbove(CurrentType, recommendation.recommended_instance_type)
        ELSE recommendation.recommended_instance_type = CurrentType

\* 1 x t2.micro with cpu 95 and memory 92 becomes 2 x t2.small
C5_Witness ==
    /\ Recommended
    /\ SampleCpu = 95 /\ SampleMemory = 92
    /\ CurrentCount = 1 /\ CurrentType = "t2.micro"
    /\ recommendation.action = "scale_up"
    /\ recommendation.recommended_instances = 2
    /\ recommendation.recommended_instance_type = "t2.small"

(***************************************************************************)
(* Properties of optimize_for_cost.                                        *)
(***************************************************************************)
\* C6: a non-null result of optimize_for_cost has a monthly cost, which is
\* the cost of its recommended count and tier, within the budget.
C6_WithinBudget ==
    (Optimized /\ optimized # None) =>
        /\ optimized.estimated_cost.monthly <= budget_constraint
        /\ optimized.estimated_cost =
              estimate_cost(optimized.recommended_instances,
                            optimized.recommended_instance_type)

\* the search ran and found a configuration within the budget
C6_Witness ==
    /\ Optimized /\ search_ran
    /\ optimized # None
    /\ optimized.action = "optimize"
    /\ optimized.estimated_cost.monthly <= budget_constraint

\* C7: when the unconstrained recommendation costs at most the budget,
\* optimize_for_cost returns exactly that recommendation and does not
\* search; a result with action optimize is returned only when the
\* unconstrained cost exceeds the budget.
C7_NoSearchWithinBudget ==
    (Recommended /\ Optimized) =>
        /\ (recommendation.estimated_cost.monthly <= budget_constraint) =>
              (optimized = recommendation /\ ~search_ran)
        /\ (optimized # None /\ optimized.action = "optimize") =>
              (recommendation.estimated_cost.monthly > budget_constraint /\ search_ran)

\* the unconstrained cost equals the budget and is returned unchanged
C7_Witness ==
    /\ Recommended /\ Optimized
    /\ recommendation.estimated_cost.monthly = budget_constraint
    /\ budget_constraint > 0
    /\ optimized = recommendation
    /\ ~search_ran

\* C8: when the unconstrained recommendation exceeds the budget, the result
\* is null exactly when no pair of the search grid costs at most the budget.
C8_NullWhenInfeasible ==
    (/\ Recommended /\ Optimized
     /\ recommendation.estimated_cost.monthly > budget_constraint) =>
        (optimized = None <=>
            \A g \in SearchGrid :
                estimate_cost(g[2], g[1]).monthly > budget_constraint)

\* a positive budget that no pair of the grid fits: the result is null
C8_Witness ==
    /\ Recommended /\ Optimized /\ search_ran
    /\ budget_constraint > 0
    /\ optimized = None

(***************************************************************************)
(* Properties of _estimate_cost.                                           *)
(***************************************************************************)
\* C9 as stated: for a known tier the returned values satisfy
\* monthly = daily * 30 and daily = hourly * 24.
C9_ExactIdentities ==
    (Estimated /\ CurrentType \in KnownTypes) =>
        /\ cost_estimate.monthly = cost_estimate.daily * 30
        /\ cost_estimate.daily * 100 = cost_estimate.hourly * 24

\* C9 amended: for a known tier the returned daily and monthly costs are
\* hourly * 24 and hourly * 24 * 30, each rounded to cents on its own, so
\* that monthly differs from daily * 30 by at most 15 cents.
C9_RoundedIdentities ==
    (Estimated /\ CurrentType \in KnownTypes) =>
        /\ cost_estimate.hourly = pricing[CurrentType] * CurrentCount
        /\ Abs(cost_estimate.daily * 100 - cost_estimate.hourly * 24) <= 50
        /\ Abs(cost_estimate.monthly * 100 - cost_estimate.hourly * 720) <= 50
        /\ Abs(cost_estimate.monthly - cost_estimate.daily * 30) <= 15

\* a cost whose monthly value is not thirty times its daily value
C9_Witness ==
    /\ Estimated /\ CurrentType \in KnownTypes /\ CurrentCount >= 1
    /\ cost_estimate.monthly # cost_estimate.daily * 30

C11_StepsTotal ==
    /\ Len(tier_walk) = IF tier_walk = <<>> THEN 0 ELSE Len(tier_ops) + 1
    /\ \A i \in 1..Len(tier_ops) :
        /\ tier_ops[i] = "up" =>
              IF HasLargerNeighbour(tier_walk[i])
              THEN OneLevelAbove(tier_walk[i], tier_walk[i + 1])
              ELSE tier_walk[i + 1] = tier_walk[i]
        /\ tier_ops[i] = "down" =>
              IF HasSmallerNeighbour(tier_walk[i])
              THEN OneLevelAbove(tier_walk[i + 1], tier_walk[i])
              ELSE tier_walk[i + 1] = tier_walk[i]
    /\ \A i \in 1..(Len(tier_ops) - 1) :
        (/\ tier_ops[i] = "up" /\ tier_ops[i + 1] = "down"
         /\ HasLargerNeighbour(tier_walk[i])) =>
            tier_walk[i + 2] = tier_walk[i]

\* t2.xlarge stepped up twice and down once: the second step up leaves
\* t2.2xlarge, the step down returns to t2.xlarge
C11_Witness ==
    /\ tier_ops = <<"up", "up", "down">>
    /\ tier_walk = <<"t2.xlarge", "t2.2xlarge", "t2.2xlarge", "t2.xlarge">>

(***************************************************************************)
(* Properties of the CostOptimizer.                                        *)
(***************************************************************************)
Returned(op) == opt_done /\ opt_input.op = op

\* C15: with the weights 0.5 and 0.5 the optimization score lies in [0, 100]
\* for every allocation with instance_count >= 0 and every cpu and memory
\* usage, negative and above 100 included.
C15_ScoreInRange ==
    (Returned("score") /\ DictGet(opt_input.allocation, "instance_count", 1) >= 0) =>
        (0 <= opt_result /\ opt_result <= 100 * 100)

\* 500 x t2.xlarge with negative usages: both sub-scores are floored
C15_Witness ==
    /\ Returned("score")
    /\ opt_input.allocation["instance_count"] = 500
    /\ opt_input.allocation["instance_type"] = "t2.xlarge"
    /\ DictGet(opt_input.metrics, "cpu_usage", 0) = -50
    /\ DictGet(opt_input.metrics, "memory_usage", 0) = 400
    /\ opt_result = 0

\* the calendar dates of a cost history
HistoryDates(cost_history) ==
    {cost_history[i]["timestamp"] : i \in DOMAIN cost_history}

\* C16: an empty history gives the trend stable with average, total and
\* projected monthly cost 0; a non-empty history of fewer than 7 distinct
\* dates gives insufficient_data.
C16_EmptyAndShortHistories ==
    Returned("trend") =>
        /\ opt_input.cost_history = <<>> =>
              /\ opt_result.trend = "stable"
              /\ opt_result.average_daily_cost = 0
              /\ opt_result.total_cost = 0
              /\ opt_result.projected_monthly_cost = 0
        /\ (/\ opt_input.cost_history # <<>>
            /\ Cardinality(HistoryDates(opt_input.cost_history)) < 7) =>
              opt_result.trend = "insufficient_data"

\* seven records on six dates are not enough
C16_Witness ==
    /\ Returned("trend")
    /\ Len(opt_input.cost_history) = 7
    /\ Cardinality(HistoryDates(opt_input.cost_history)) = 6
    /\ opt_result.trend = "insufficient_data"

\* the position at which a date first appears in a history
FirstIndex(cost_history, date) ==
    CHOOSE i \in DOMAIN cost_history :
        /\ cost_history[i]["timestamp"] = date
        /\ \A j \in 1..(i - 1) : cost_history[j]["timestamp"] # date

\* the dates of the last 7 daily buckets, in order of first appearance
RecentDates(cost_history) ==
    {d \in HistoryDates(cost_history) :
        Cardinality({e \in HistoryDates(cost_history) :
            FirstIndex(cost_history, e) > FirstIndex(cost_history, d)}) < 7}

\* the sum of the costs of the records of a set of dates
RECURSIVE CostOfDates(_, _, _)
CostOfDates(cost_history, dates, k) ==
    IF k = 0 THEN 0
    ELSE CostOfDates(cost_history, dates, k - 1)
         + (IF cost_history[k]["timestamp"] \in dates
            THEN cost_history[k]["cost"] ELSE 0)

\* the sums and sizes the classification compares: mean of the last 7 daily
\* totals is RecentCost / 7, mean of the earlier ones is OlderCost / OlderDays
RecentCost == CostOfDates(opt_input.cost_history, RecentDates(opt_input.cost_history),
                          Len(opt_input.cost_history))
OlderDates == HistoryDates(opt_input.cost_history) \ RecentDates(opt_input.cost_history)
OlderCost == CostOfDates(opt_input.cost_history, OlderDates, Len(opt_input.cost_history))
OlderDays == Cardinality(OlderDates)

\* C17 as stated: with at least 7 daily buckets and some earlier bucket, the
\* trend is increasing when the recent mean is >= 1.10 times the earlier
\* mean, decreasing when it is <= 0.90 times it, stable otherwise.
C17_InclusiveBoundaries ==
    (Returned("trend") /\ OlderDays >= 1) =>
        opt_result.trend =
            IF 10 * OlderDays * RecentCost >= 77 * OlderCost THEN "increasing"
            ELSE IF 10 * OlderDays * RecentCost <= 63 * OlderCost THEN "decreasing"
            ELSE "stable"

\* C17 amended: with at least 7 daily buckets, the last 7 in order of first
\* appearance, the trend is increasing when the recent mean is strictly
\* above 1.10 times the earlier mean, decreasing when it is strictly below
\* 0.90 times it, and stable otherwise, the two boundary values included;
\* with exactly 7 buckets of a non-negative total the trend is stable.
C17_StrictBoundaries ==
    (Returned("trend") /\ Cardinality(HistoryDates(opt_input.cost_history)) >= 7) =>
        IF OlderDays >= 1
        THEN opt_result.trend =
                IF 10 * OlderDays * RecentCost > 77 * OlderCost THEN "increasing"
                ELSE IF 10 * OlderDays * RecentCost < 63 * OlderCost THEN "decreasing"
                ELSE "stable"
        ELSE RecentCost >= 0 => opt_result.trend = "stable"

\* one earlier day at 100.00 and seven days at 110.00: exactly 1.10 times
C17_Witness ==
    /\ Returned("trend")
    /\ OlderDays = 1 /\ OlderCost = 10000
    /\ RecentCost = 7 * 11000
    /\ opt_result.trend = "stable"

\* the types of the suggestions, in the order returned
SuggestionTypes == [i \in DOMAIN opt_result |-> opt_result[i].type]

\* C18: the result is never empty; the suggestions downsize, schedule and
\* instance_type appear exactly when their rule fires and in this order;
\* reserved appears exactly when none of them fired, as the only element.
C18_SavingsNeverEmpty ==
    Returned("savings") =>
        LET cpu == DictGet(opt_input.metrics, "cpu_usage", 0)
            mem == DictGet(opt_input.metrics, "memory_usage", 0)
            pcpu == DictGet(opt_input.predictions, "cpu_usage", 0)
            type == DictGet(opt_input.allocation, "instance_type", "")
            fired == (IF cpu < 30 /\ mem < 30 THEN <<"downsize">> ELSE <<>>)
                     \o (IF cpu < 40 /\ pcpu < 40 THEN <<"schedule">> ELSE <<>>)
                     \o (IF type \in {"t2.micro", "t2.small", "t2.medium", "t2.large",
                                      "t2.xlarge", "t2.2xlarge"}
                         THEN <<"instance_type">> ELSE <<>>)
        IN  /\ Len(opt_result) >= 1
            /\ SuggestionTypes = IF fired = <<>> THEN <<"reserved">> ELSE fired

\* no rule fires: the only suggestion is reserved
C18_Witness ==
    /\ Returned("savings")
    /\ SuggestionTypes = <<"reserved">>
    /\ DictGet(opt_input.metrics, "cpu_usage", 0) = 40

\* C19: calculate_roi returns its analysis: with implementation_cost > 0 the
\* payback period is implementation_cost / monthly_savings (to the returned
\* tenth of a month) when monthly_savings > 0 and infinite otherwise; with
\* implementation_cost = 0 it is 0 and the roi is 100 percent; the savings
\* percentage is 0 when the baseline is 0.
C19_RoiDegenerateCases ==
    Returned("roi") =>
        LET savings == opt_input.baseline_cost - opt_input.optimized_cost
            impl == opt_input.implementation_cost
        IN  /\ opt_result.monthly_savings = savings
            /\ (impl > 0 /\ savings > 0) =>
                  /\ ~opt_result.payback_inf
                  /\ 2 * Abs(opt_result.payback_period_months * savings - 10 * impl)
                        <= savings
            /\ (impl > 0 /\ savings <= 0) => opt_result.payback_inf
            /\ impl = 0 =>
                  /\ ~opt_result.payback_inf
                  /\ opt_result.payback_period_months = 0
                  /\ opt_result.roi_percentage = 100 * 100
            /\ opt_input.baseline_cost = 0 => opt_result.savings_percentage = 0

\* an implementation cost with no savings at all: the payback is infinite
C19_Witness ==
    /\ Returned("roi")
    /\ opt_input.implementation_cost > 0
    /\ opt_input.baseline_cost = opt_input.optimized_cost
    /\ opt_result.payback_inf

(***************************************************************************)
(* Properties of execute_allocation and of the fleet (FleetSpec).          *)
(***************************************************************************)
\* the execution of the request of thread t has returned
Executed(t) == pc[t] = "done"

\* thread t is between the call of execute_allocation and its return
InExecution(t) == pc[t] \in {"execute", "scale_up", "launch", "scale_down",
                             "terminate", "returned"}

\* thread t is inside scale_up or scale_down of the provider
InScaleOperation(t) == pc[t] \in {"scale_up", "launch", "scale_down", "terminate"}

ScaleActions == {"scale_up", "scale_down"}

\* C12: executing a recommendation of action maintain returns success = true
\* and makes no call to the provider, and no step of that execution changes
\* the instance pool.
C12_MaintainNoCall ==
    /\ [](\A t \in Threads :
            (Executed(t) /\ rec[t].action = "maintain") =>
                /\ result[t].success = TRUE
                /\ result[t].action = "maintain"
                /\ calls[t] = <<>>)
    /\ [][\A t \in Threads :
            (InExecution(t) /\ rec[t] # None /\ rec[t].action = "maintain"
                /\ pc'[t] # pc[t]) =>
                /\ instances' = instances
                /\ calls'[t] = <<>>
                /\ ~InScaleOperation(t)]_vars

C12_Witness ==
    \E t \in Threads :
        /\ Executed(t)
        /\ rec[t].action = "maintain"
        /\ result[t].success = TRUE
        /\ calls[t] = <<>>

\* C13: executing a scale_up (scale_down) recommendation calls scale_up
\* (scale_down) of the provider exactly once, with recommended_instances and
\* recommended_instance_type of the recommendation, and returns what the
\* provider returned, a result of success = false included; there is never a
\* second call.
C13_DelegatesOnce ==
    \A t \in Threads :
        /\ Len(calls[t]) <= 1
        /\ ((InScaleOperation(t) \/ pc[t] \in {"returned", "done"})
                /\ rec[t].action \in ScaleActions) =>
              calls[t] = <<[op |-> rec[t].action,
                            target_instances |-> rec[t].recommended_instances,
                            instance_type |-> rec[t].recommended_instance_type]>>
        /\ (Executed(t) /\ rec[t].action \in ScaleActions) =>
              /\ provider_result[t] # None
              /\ result[t] = provider_result[t]
              /\ result[t].action = rec[t].action

C13_Witness ==
    \E t \in Threads :
        /\ Executed(t)
        /\ rec[t].action = "scale_up"
        /\ Len(calls[t]) = 1
        /\ provider_result[t].success = FALSE
        /\ result[t].success = FALSE

\* C14: executing a recommendation whose action is none of maintain,
\* scale_up and scale_down (the action optimize of the budget search is one)
\* returns success = false with a message that names the action, and makes
\* no call to the provider.
C14_UnknownAction ==
    \A t \in Threads :
        (Executed(t) /\ rec[t].action \notin ({"maintain"} \cup ScaleActions)) =>
            /\ result[t].success = FALSE
            /\ result[t].message = Message("Unknown action: {}", <<rec[t].action>>)
            /\ result[t].action = rec[t].action
            /\ provider_result[t] = None
            /\ calls[t] = <<>>

C14_Witness ==
    \E t \in Threads :
        /\ Executed(t)
        /\ rec[t].action = "optimize"
        /\ rec[t] \in SuppliedRecommendations
        /\ result[t].success = FALSE
        /\ calls[t] = <<>>

\* C20: executions against the fleet are serialized: at most one thread is
\* inside a scale operation of the provider at a time, and once no execution
\* is in flight the pool has as many instances as the last execution, a
\* successful scale operation, asked for.
C20_ExecutionsSerialized ==
    /\ Cardinality({t \in Threads : InScaleOperation(t)}) <= 1
    /\ ((\A t \in Threads : ~InExecution(t)) /\ allocation_records # <<>>) =>
          LET last == allocation_records[Len(allocation_records)]
          IN  (last.recommendation.action \in ScaleActions /\ last.result.success) =>
                  Len(instances) = last.recommendation.recommended_instances

(***************************************************************************)
(* Further properties of the decision engine (Spec).                       *)
(***************************************************************************)
\* C21: every recommendation of action scale_up or scale_down carries a
\* reason that contains the predicted cpu and the predicted memory.
C21_ReasonNamesValues ==
    (Recommended /\ recommendation.action \in {"scale_up", "scale_down"}) =>
        recommendation.reason.values = <<SampleCpu, SampleMemory>>

\* the score of a pair of the grid as the specification writes it, for a
\* predicted cpu: 100 - |capacity * count - cpu / 10| * 10 when the capacity
\* covers the load, 50 - (cpu / 10 - capacity * count) * 20 otherwise,
\* floored at 0
GridScore(g, cpu) ==
    LET total == capacity[g[1]] * g[2]
    IN  IF 10 * total >= cpu
        THEN Max(0, 100 - (10 * total - cpu))
        ELSE Max(0, 50 - 2 * (cpu - 10 * total))

\* the position of a pair in the iteration: tiers outer, counts inner
GridOrder(g) ==
    LET tier == CHOOSE i \in 1..Len(instance_types) : instance_types[i] = g[1]
    IN  5 * (tier - 1) + g[2]

\* the pairs of the grid whose monthly cost is within the budget
FeasibleGrid ==
    {g \in SearchGrid : estimate_cost(g[2], g[1]).monthly <= budget_constraint}

\* the pair a result of the search recommends
ChosenPair == <<optimized.recommended_instance_type, optimized.recommended_instances>>

\* C22: when the budget search runs for a sample that carries cpu_usage and
\* returns a configuration, that configuration is a feasible pair of the
\* grid whose score is the maximum over the feasible pairs, and the first in
\* iteration order among the feasible pairs of that score.
C22_FirstBestFeasible ==
    (Optimized /\ search_ran /\ optimized # None
        /\ "cpu_usage" \in DOMAIN predictions) =>
        /\ ChosenPair \in FeasibleGrid
        /\ \A g \in FeasibleGrid :
              /\ GridScore(g, SampleCpu) <= GridScore(ChosenPair, SampleCpu)
              /\ GridScore(g, SampleCpu) = GridScore(ChosenPair, SampleCpu) =>
                    GridOrder(ChosenPair) <= GridOrder(g)

\* several feasible pairs share the maximum score and the first is returned
C22_Witness ==
    /\ Optimized /\ search_ran /\ optimized # None
    /\ "cpu_usage" \in DOMAIN predictions
    /\ \E g \in FeasibleGrid :
          /\ g # ChosenPair
          /\ GridScore(g, SampleCpu) = GridScore(ChosenPair, SampleCpu)
          /\ GridOrder(ChosenPair) < GridOrder(g)
    /\ \A g \in FeasibleGrid : GridScore(g, SampleCpu) <= GridScore(ChosenPair, SampleCpu)

(***************************************************************************)
(* Further properties of the CostOptimizer (OptimizerSpec).                *)
(***************************************************************************)
\* the utilization-fitness curve of one metric, clamped to [0, 100]
ClampedCurve(v) ==
    LET raw == IF 60 <= v /\ v <= 80 THEN 100
               ELSE IF v < 60 THEN 100 - (60 - v) * 2
               ELSE 100 - (v - 80) * 3
    IN  Max(0, Min(100, raw))

\* C23: the performance score is the average of the cpu and memory
\* sub-scores, each clamped to [0, 100] on its own, so that it is never
\* below half of the sub-score of either metric.
C23_SubScoresClamped ==
    Returned("score") =>
        LET cpu_score == ClampedCurve(DictGet(opt_input.metrics, "cpu_usage", 0))
            memory_score == ClampedCurve(DictGet(opt_input.metrics, "memory_usage", 0))
            performance_score == optimizer_performance_score(opt_input.metrics)
        IN  /\ performance_score = (cpu_score + memory_score) * 5000
            /\ 2 * performance_score >= cpu_score * 10000
            /\ 2 * performance_score >= memory_score * 10000

\* the predicted sample with cpu_usage set to 0
SampleWithCpuZero == ("cpu_usage" :> 0) @@ predictions

\* C24: a predicted sample that lacks cpu_usage is treated as cpu_usage = 0
\* by the whole engine: the recommendation and the result of the budget
\* search are those of the same sample with cpu_usage set to 0.
C24_MissingCpuIsZero ==
    "cpu_usage" \notin DOMAIN predictions =>
        /\ Recommended =>
              recommendation =
                  calculate_required_resources(SampleWithCpuZero, current_allocation)
        /\ Optimized =>
              optimized = optimize_for_cost(SampleWithCpuZero, current_allocation,
                                            budget_constraint)

(***************************************************************************)
(* Further properties of the fleet (FleetSpec).                            *)
(***************************************************************************)
\* the request of thread t went through execute_allocation
PastExecution(t) == pc[t] \in {"raised", "done"}

\* C25: in the allocate pipeline execute_allocation always returns a result
\* and never raises; for a recommendation that is None (calculate_required_
\* resources failed) the result has success = false.
C25_ExecuteNeverRaises ==
    \A t \in Threads :
        PastExecution(t) =>
            /\ pc[t] # "raised"
            /\ result[t] # None
            /\ rec[t] = None => result[t].success = FALSE

(***************************************************************************)
(* Further properties of analyze_cost_trends (OptimizerSpec).              *)
(***************************************************************************)
\* C26: the trend depends only on the set of cost records, not on their
\* order: the history and the same records in the opposite order (ascending
\* against descending timestamps) are given the same trend.
C26_OrderIndependent ==
    Returned("trend") =>
        opt_result.trend = analyze_cost_trends(Reverse(opt_input.cost_history)).trend

(***************************************************************************)
(* Properties of the serialized loop (LoopSpec) and of the MockProvider    *)
(* (MockSpec).                                                             *)
(***************************************************************************)
\* a tick has executed its recommendation and the next has not started
TickDone == loop_pc = "recommend" /\ loop_result # None

\* C27: after execute_allocation returned success for a scale_up or
\* scale_down recommendation against the MockProvider, ticks serialized,
\* get_current_resources reports the recommended instance count and the
\* recommended instance type.
C27_AllocationAsRecommended ==
    (TickDone /\ loop_rec.action \in ScaleActions /\ loop_result.success) =>
        LET reported == current_resources(instances)
        IN  /\ reported["instance_count"] = loop_rec.recommended_instances
            /\ reported["instance_type"] = loop_rec.recommended_instance_type

\* the sample of the loop is low: cpu < 30 and memory < 35
LowSample == loop_sample["cpu_usage"] < 30 /\ loop_sample["memory_usage"] < 35

\* C28: with a constant low sample the serialized loop eventually recommends
\* maintain and recommends maintain in every tick from then on.
C28_ReachesMaintain ==
    LowSample => <>[](loop_rec # None /\ loop_rec.action = "maintain")

\* C29: after any sequence of scale_up, scale_down, launch_instance and
\* terminate_instance calls on the MockProvider no two instances of the pool
\* have the same instance_id.
C29_UniqueInstanceIds ==
    \A i, j \in 1..Len(instances) :
        i # j => instances[i].instance_id # instances[j].instance_id

(***************************************************************************)
(* Properties of the WorkloadMonitor (MonitorSpec).                        *)
(***************************************************************************)
\* C30: for every interleaving of start_monitoring and stop_monitoring calls
\* at most one sampling loop is alive at a time: apart from loops that a
\* stop_monitoring call stopped and that are on their way out there is at
\* most one loop, and a stopped loop never samples again.
C30_SingleSamplingLoop ==
    /\ Cardinality(AliveLoops \ stopped_loops) <= 1
    /\ revived_loops = {}
    /\ Cardinality({l \in AliveLoops : monitor_loops[l] = "sleep"}) <= 1
====
